---- MODULE Spec2Model ----
(***************************************************************************)
(* Model of app.py: the meeting notification / record / regulation          *)
(* back-end.  The persisted tables are sets of rows, every request works    *)
(* in its own SQLAlchemy session (a set of pending inserts and deletes      *)
(* over the committed tables, applied on commit and dropped on rollback),   *)
(* and the S3 bucket is a set of keys.  File names are sequences of         *)
(* one-character strings so that sanitising them is computed, not assumed.  *)
(***************************************************************************)
EXTENDS Integers, Sequences, FiniteSets, TLC

VARIABLES
    db,      \* committed rows: table name -> set of rows
    blobs,   \* keys present in the S3 bucket
    seq,     \* next primary key per table (sequences are not transactional)
    pc,      \* slot -> where its upload request stands
    req,     \* slot -> the upload request in flight (or the last one)
    tx,      \* slot -> pending [ins, del] of the slot's session
    pre,     \* slot -> committed rows and blobs when the request started
    resp,    \* slot -> status of the last response of the slot
    last,    \* the last single-step request (detail read, delete) and its answer
    s3del,   \* slot -> keys the request asked S3 to delete
    nreq     \* number of requests of authenticated callers started

vars == <<db, blobs, seq, pc, req, tx, pre, resp, last, s3del, nreq>>

\* Number of upload and delete requests of authenticated callers in a behaviour.
MaxRequests == 2

\* SQL NULL in a nullable integer column; primary keys start at 1.
NULL == 0
\* The form value id = "-1": create a new row.
NewId == -1
\* No id field in the form.
NoId == -2
\* A dictionary key the submitted JSON does not have.
Missing == "<missing>"
\* The id of the only user row; current_user.id of an authenticated caller.
UserId == 1

Slots == {"w1", "w2"}

Tables == {"notification", "record", "schedule", "detail", "detail_file", "file",
           "regulation", "chapter", "article", "paragraph", "clause", "revision"}

EmptyTables == [t \in Tables |-> {}]

EmptyTx == [ins |-> EmptyTables, del |-> EmptyTables]

---------------------------------------------------------------------------
(* File names *)

\* Characters the regular expression of custom_secure_filename keeps:
\* \w, the ideographs, parentheses, dot and hyphen.
WordChars == {"a", "b", "c", "p", "t", "x", "_", "0", "1", "2"}
Ideographs == {"zh"}
AllowedChars == WordChars \cup Ideographs \cup {"(", ")", ".", "-"}

\* A substitution that drops the characters it does not keep.
custom_secure_filename_Drop(filename) ==
    SelectSeq(filename, LAMBDA c : c \in AllowedChars)

custom_secure_filename(filename) ==
    [i \in 1..Len(filename) |->
        IF filename[i] \in AllowedChars THEN filename[i] ELSE "_"]

\* Index of the last dot, 0 when there is none.
LastDot(s) ==
    IF \E i \in 1..Len(s) : s[i] = "."
    THEN CHOOSE i \in 1..Len(s) : s[i] = "." /\ \A j \in (i+1)..Len(s) : s[j] # "."
    ELSE 0

\* original_filename.rsplit(".", 1) unpacked into base, ext: raises without a dot.
\* `files` is the file table the session sees, `ts` the digits of int(time.time()).
generate_unique_filename(original_filename, files, ts) ==
    LET k == LastDot(original_filename) IN
    IF k = 0 THEN [ok |-> FALSE, safe |-> <<>>]
    ELSE LET base == custom_secure_filename(SubSeq(original_filename, 1, k - 1))
             ext == custom_secure_filename(
                        SubSeq(original_filename, k + 1, Len(original_filename)))
             safe_name == base \o <<".">> \o ext
             existing == \E f \in files : f.original_filename = safe_name
         IN [ok |-> TRUE,
             safe |-> IF existing THEN base \o <<"_">> \o ts \o <<".">> \o ext
                      ELSE safe_name]

\* The call with an empty file table: base and ext sanitised and rejoined.
SanitizedName(original_filename) ==
    generate_unique_filename(original_filename, {}, <<>>)

file_url_base == "https://ntusc-files.s3.ap-southeast-1.amazonaws.com/"

\* file_url_base + key
Url(key) == <<file_url_base>> \o key

---------------------------------------------------------------------------
(* Sessions *)

\* What the session of slot r reads: the committed rows with its own pending
\* deletes and inserts applied.
View(r) == [t \in Tables |-> (db[t] \ tx[r].del[t]) \cup tx[r].ins[t]]

\* The session's pending changes with the rows `gone` deleted and `new` added.
Pending(t, gone, new) ==
    [ins |-> [x \in Tables |-> (t.ins[x] \ gone[x]) \cup new[x]],
     del |-> [x \in Tables |-> t.del[x] \cup gone[x]]]

\* db.session.commit() of a session whose pending changes are t.
Committed(t) == [x \in Tables |-> (db[x] \ t.del[x]) \cup t.ins[x]]

Ids(rows) == {x.id : x \in rows}

RECURSIVE SortById(_)
\* Rows in the order an unordered query returns them: ascending primary key.
SortById(rows) ==
    IF rows = {} THEN <<>>
    ELSE LET m == CHOOSE x \in rows : \A y \in rows : x.id <= y.id
         IN <<m>> \o SortById(rows \ {m})

EventTable(is_record) == IF is_record THEN "record" ELSE "notification"

\* The schedules of a notification or a record with the id, whichever the kind.
SchedulesOf_AnyKind(v, id, is_record) ==
    {s \in v.schedule : s.record_id = id \/ s.notification_id = id}

\* Schedule.record_id == id if is_record else Schedule.notification_id == id
SchedulesOf(v, id, is_record) ==
    {s \in v.schedule : IF is_record THEN s.record_id = id ELSE s.notification_id = id}

DetailsOf(v, scheds) == {d \in v.detail : d.schedule_id \in Ids(scheds)}

LinksOf(v, dets) == {l \in v.detail_file : l.detail_id \in Ids(dets)}

\* len(file.details): the details of the whole table that link the file
RefCount(v, file) == Cardinality({l \in v.detail_file : l.file_id = file.id})

---------------------------------------------------------------------------
(* Submitted forms *)

Range(s) == {s[i] : i \in DOMAIN s}

RECURSIVE UploadNewFiles(_, _, _, _, _)
\* The loop of getDataFromFrontend over the "newfile-" parts.  acc.info is
\* uploaded_files_info (one entry per original name), acc.put the keys written
\* to the bucket; an upload that fails (original \in failing) is skipped, a name
\* without a dot raises.
UploadNewFiles(parts, files, ts, failing, acc) ==
    IF parts = <<>> \/ ~acc.ok THEN acc
    ELSE LET original == Head(parts)
             g == generate_unique_filename(original, files, ts)
         IN IF ~g.ok THEN [acc EXCEPT !.ok = FALSE]
            ELSE IF original \in failing
            THEN UploadNewFiles(Tail(parts), files, ts, failing, acc)
            ELSE UploadNewFiles(Tail(parts), files, ts, failing,
                    [acc EXCEPT
                        !.info = {i \in @ : i.original # original}
                                    \cup {[original |-> original, safe |-> g.safe]},
                        !.put = @ \cup {g.safe}])

\* parse_json_field(request, "content"): the value of the text, and the empty
\* dict when json.loads raises JSONDecodeError.
parse_json_field(form) == IF form.json THEN form.content ELSE <<>>

\* {"original": file["name"], "safe": file["url"]} for file in detail["file_dict"]
FileDictUrls(file_dict) ==
    [i \in 1..Len(file_dict) |->
        [original |-> file_dict[i].name, safe |-> file_dict[i].url]]

RECURSIVE NewFileUrls(_, _)
\* uploaded_files_info[fname] for fname in detail["fileName"] if it was uploaded
NewFileUrls(fileName, info) ==
    IF fileName = <<>> THEN <<>>
    ELSE LET hit == {i \in info : i.original = Head(fileName)}
         IN (IF hit = {} THEN <<>> ELSE <<CHOOSE i \in hit : TRUE>>)
                \o NewFileUrls(Tail(fileName), info)

\* data["content"]: every detail gets file_urls = old files + new files
ParseContent(content, info) ==
    [i \in 1..Len(content) |->
        [title |-> content[i].title,
         details |-> [j \in 1..Len(content[i].details) |->
            [content |-> content[i].details[j].content,
             file_urls |-> FileDictUrls(content[i].details[j].file_dict)
                            \o NewFileUrls(content[i].details[j].fileName, info)]]]]

RECURSIVE DeletedOfDetails(_)
DeletedOfDetails(details) ==
    IF details = <<>> THEN <<>>
    ELSE Head(details).deleted_files \o DeletedOfDetails(Tail(details))

RECURSIVE DeletedFiles(_)
\* deleted_files += detail.get("deleted_files"), over all schedules and details
DeletedFiles(content) ==
    IF content = <<>> THEN <<>>
    ELSE DeletedOfDetails(Head(content).details) \o DeletedFiles(Tail(content))

\* Keyword arguments of the model constructor the upload route calls for a new row.
NewEventKwargs(is_record) ==
    IF is_record THEN {"user_id", "is_modify"} ELSE {"user_id"}

\* Columns of Notification and of Record (the two classes declare the same ones).
EventColumns ==
    {"id", "title", "session", "datestart", "dateend", "place", "person", "shorthand",
     "upload_type", "meeting_transcript", "video", "chairman", "recorder",
     "attendance", "present", "is_visible", "user_id", "schedules"}

\* The declarative constructor raises TypeError on a keyword that is no attribute.
ConstructorAccepts(is_record) == NewEventKwargs(is_record) \subseteq EventColumns

\* A route without the decorator: every caller gets in.
login_required_Open(auth) == TRUE

\* @login_required
login_required(auth) == auth

\* The row after the loop of setattr over the fields of the form.
EventRow(id, cols, user_id) ==
    [id |-> id, title |-> cols.title, session |-> cols.session,
     datestart |-> cols.datestart, upload_type |-> cols.upload_type,
     meeting_transcript |-> cols.meeting_transcript, video |-> cols.video,
     is_visible |-> cols.is_visible, user_id |-> user_id]

IdleReq ==
    [n |-> 0, again |-> FALSE,
     auth |-> TRUE, kind |-> "none", is_new |-> FALSE, id |-> NULL,
     cols |-> [title |-> "", is_visible |-> TRUE, category |-> "",
              session |-> 0, datestart |-> 0, upload_type |-> "",
              meeting_transcript |-> <<>>, video |-> <<>>],
     content |-> <<>>, deleted_files |-> <<>>, revision |-> <<>>, json |-> TRUE]

---------------------------------------------------------------------------
(* addSchedule *)

\* The rows with the lowest id: what .first() returns of an unordered query.
First(rows) == CHOOSE x \in rows : \A y \in rows : x.id <= y.id

\* A lookup that never finds the file.
FileBySafeName_Blind(files, safe) == {}

\* File.query.filter_by(filename_with_timestamp=file_item["safe"])
FileBySafeName(files, safe) == {f \in files : f.filename_with_timestamp = safe}

RECURSIVE AddFiles(_, _, _, _)
\* The loop over detail["file_urls"]: reuse the File with that safe name or add
\* one, then insert the (detail_id, file_id) link.  The pair is the primary key
\* of detail_file: a second insert of the same pair raises.  acc.new are the
\* rows added so far, acc.seq the sequences, acc.ok turns FALSE on an exception.
AddFiles(acc, detail_id, file_urls, files) ==
    IF file_urls = <<>> \/ ~acc.ok THEN acc
    ELSE LET file_item == Head(file_urls)
             found == FileBySafeName(files \cup acc.new.file, file_item.safe)
             file_id == IF found = {} THEN acc.seq.file ELSE First(found).id
             acc1 == IF found = {}
                     THEN [acc EXCEPT
                            !.new.file = @ \cup
                                {[id |-> file_id,
                                  original_filename |-> file_item.original,
                                  filename_with_timestamp |-> file_item.safe]},
                            !.seq.file = @ + 1]
                     ELSE acc
             dup == \E l \in acc1.new.detail_file :
                        l.detail_id = detail_id /\ l.file_id = file_id
             acc2 == IF dup THEN [acc1 EXCEPT !.ok = FALSE]
                     ELSE [acc1 EXCEPT
                            !.new.detail_file = @ \cup
                                {[id |-> acc1.seq.detail_file,
                                  detail_id |-> detail_id, file_id |-> file_id]},
                            !.seq.detail_file = @ + 1]
         IN AddFiles(acc2, detail_id, Tail(file_urls), files)

RECURSIVE AddDetails(_, _, _, _)
\* The loop over schedule["details"]; detail["content"] raises KeyError when the
\* key is missing.
AddDetails(acc, schedule_id, details, files) ==
    IF details = <<>> \/ ~acc.ok THEN acc
    ELSE LET detail == Head(details) IN
         IF detail.content = Missing THEN [acc EXCEPT !.ok = FALSE]
         ELSE LET detail_id == acc.seq.detail
                  acc1 == [acc EXCEPT
                            !.new.detail = @ \cup
                                {[id |-> detail_id, content |-> detail.content,
                                  schedule_id |-> schedule_id]},
                            !.seq.detail = @ + 1]
              IN AddDetails(AddFiles(acc1, detail_id, detail.file_urls, files),
                            schedule_id, Tail(details), files)

RECURSIVE addSchedule(_, _, _, _, _)
\* The loop over content; schedule["title"] raises KeyError when the key is
\* missing.  `files` is the file table the session sees when the loop starts.
addSchedule(acc, content, id, is_record, files) ==
    IF content = <<>> \/ ~acc.ok THEN acc
    ELSE LET schedule == Head(content) IN
         IF schedule.title = Missing THEN [acc EXCEPT !.ok = FALSE]
         ELSE LET schedule_id == acc.seq.schedule
                  acc1 == [acc EXCEPT
                            !.new.schedule = @ \cup
                                {[id |-> schedule_id, title |-> schedule.title,
                                  notification_id |-> IF is_record THEN NULL ELSE id,
                                  record_id |-> IF is_record THEN id ELSE NULL]},
                            !.seq.schedule = @ + 1]
              IN addSchedule(AddDetails(acc1, schedule_id, schedule.details, files),
                             Tail(content), id, is_record, files)

---------------------------------------------------------------------------
(* deletSchedule *)

\* The files the nested loops of deletSchedule reach from the old schedules.
ReachableFiles(v, old_schedules) ==
    {f \in v.file : \E l \in LinksOf(v, DetailsOf(v, old_schedules)) : l.file_id = f.id}

\* The condition without the count of the referencing details.
delete_file_if_listed(v, file, deleted_files) ==
    file.filename_with_timestamp \in Range(deleted_files)

\* The condition of delete_file_if_unused.
delete_file_if_unused(v, file, deleted_files) ==
    RefCount(v, file) = 1 /\ file.filename_with_timestamp \in Range(deleted_files)

\* The File rows deletSchedule deletes: none when deleted_files is empty.
DoomedFiles(v, old_schedules, deleted_files) ==
    IF deleted_files = <<>> THEN {}
    ELSE {f \in ReachableFiles(v, old_schedules) :
            delete_file_if_unused(v, f, deleted_files)}

\* A deletSchedule that deletes nothing.
deletSchedule_Nothing(v, id, is_record, deleted_files) == EmptyTables

\* The rows deletSchedule deletes: the doomed files with their links, and the
\* schedules with their details and links (cascade="all, delete-orphan").
deletSchedule(v, id, is_record, deleted_files) ==
    LET old_schedules == SchedulesOf(v, id, is_record)
        dets == DetailsOf(v, old_schedules)
        doomed == DoomedFiles(v, old_schedules, deleted_files)
    IN [EmptyTables EXCEPT
            !.schedule = old_schedules,
            !.detail = dets,
            !.detail_file = LinksOf(v, dets)
                              \cup {l \in v.detail_file : l.file_id \in Ids(doomed)},
            !.file = doomed]

---------------------------------------------------------------------------
(* Detail reads *)

\* detail.files: the files the detail links, in the order the links were stored
FilesOf(v, detail) ==
    LET links == SortById({l \in v.detail_file : l.detail_id = detail.id})
    IN [i \in 1..Len(links) |-> CHOOSE f \in v.file : f.id = links[i].file_id]

serialize_detail(v, detail) ==
    LET files == FilesOf(v, detail)
    IN [id |-> detail.id,
        content |-> detail.content,
        file_name |-> [i \in 1..Len(files) |-> files[i].original_filename],
        file_urls |-> [i \in 1..Len(files) |-> Url(files[i].filename_with_timestamp)]]

serialize_schedule(v, schedule) ==
    LET details == SortById(DetailsOf(v, {schedule}))
    IN [id |-> schedule.id,
        title |-> schedule.title,
        details |-> [i \in 1..Len(details) |-> serialize_detail(v, details[i])]]

\* An external address a form gives as videoLink.
VideoLink == <<"https://video.example/1">>

\* table_data["meeting_transcript"]
MeetingTranscriptOf(table) ==
    IF table.meeting_transcript # <<>> THEN Url(table.video)
    ELSE table.meeting_transcript

\* table_data["video"]; the key is not set for any other upload_type.
VideoOf(table) ==
    IF table.upload_type = "file"
    THEN IF table.video # <<>> THEN Url(table.video) ELSE table.video
    ELSE IF table.upload_type = "link" THEN table.video
    ELSE <<Missing>>

\* The list getMeetContentFromDB returns: empty when the id is unknown.
getMeetContentFromDB(v, id, is_record) ==
    LET table == {e \in v[EventTable(is_record)] : e.id = id} IN
    IF table = {} THEN <<>>
    ELSE LET t == CHOOSE e \in table : TRUE
             schedules == SortById(SchedulesOf(v, t.id, is_record))
         IN << [id |-> t.id,
                title |-> t.title,
                session |-> t.session,
                datestart |-> t.datestart,
                is_visible |-> t.is_visible,
                upload_type |-> t.upload_type,
                meeting_transcript |-> MeetingTranscriptOf(t),
                video |-> VideoOf(t),
                schedules |-> [i \in 1..Len(schedules) |->
                                    serialize_schedule(v, schedules[i])]] >>

\* The status of *_getdetail for a meeting event, given the list read.
MeetDetailStatus(route, kind, result) ==
    IF result # <<>> THEN 200
    ELSE IF kind = "minutes" THEN 500
    ELSE 404

---------------------------------------------------------------------------
(* Listings *)

\* The sort key with the sessions ascending.
MeetBefore_SessionAscending(x, y) ==
    \/ x.session < y.session
    \/ x.session = y.session /\ x.datestart > y.datestart
    \/ x.session = y.session /\ x.datestart = y.datestart /\ x.id <= y.id

\* order_by(Table.session.desc(), Table.datestart.desc()); rows equal in both
\* come in ascending id.
MeetBefore(x, y) ==
    \/ x.session > y.session
    \/ x.session = y.session /\ x.datestart > y.datestart
    \/ x.session = y.session /\ x.datestart = y.datestart /\ x.id <= y.id

RECURSIVE OrderMeet(_)
OrderMeet(rows) ==
    IF rows = {} THEN <<>>
    ELSE LET m == CHOOSE x \in rows : \A y \in rows : MeetBefore(x, y)
         IN <<m>> \o OrderMeet(rows \ {m})

RECURSIVE SessionList(_, _)
\* session_list: every session of the rows in the order it is first seen.
SessionList(tables, seen_sessions) ==
    IF tables = <<>> THEN <<>>
    ELSE LET session_str == Head(tables).session IN
         IF session_str \in seen_sessions
         THEN SessionList(Tail(tables), seen_sessions)
         ELSE <<session_str>> \o SessionList(Tail(tables),
                                             seen_sessions \cup {session_str})

getAllMeetTitleFromDB(v, is_record, only_visible) ==
    LET all == v[EventTable(is_record)]
        rows == IF only_visible THEN {t \in all : t.is_visible = TRUE} ELSE all
        tables == OrderMeet(rows)
    IN [result |-> [i \in 1..Len(tables) |->
                        [id |-> tables[i].id, title |-> tables[i].title,
                         session |-> tables[i].session,
                         is_visible |-> tables[i].is_visible]],
        session_list |-> SessionList(tables, {})]

\* The six categories of category_ordering, in its order: the constitutional,
\* general, executive, legislative, judicial and appendix parts.
CategoryList ==
    <<"constitutional", "general", "executive", "legislative", "judicial",
      "appendix">>

\* An order that puts the categories without a rank first.
category_order_Zero(category) ==
    IF \E i \in 1..Len(CategoryList) : CategoryList[i] = category
    THEN CHOOSE i \in 1..Len(CategoryList) : CategoryList[i] = category
    ELSE 0

\* case((Table.category == name, order) ..., else_=100)
category_order(category) ==
    IF \E i \in 1..Len(CategoryList) : CategoryList[i] = category
    THEN CHOOSE i \in 1..Len(CategoryList) : CategoryList[i] = category
    ELSE 100

RECURSIVE OrderRegulations(_)
\* order_by(category_order, Table.id.asc())
OrderRegulations(rows) ==
    IF rows = {} THEN <<>>
    ELSE LET m == CHOOSE x \in rows : \A y \in rows :
                    \/ category_order(x.category) < category_order(y.category)
                    \/ category_order(x.category) = category_order(y.category)
                            /\ x.id <= y.id
         IN <<m>> \o OrderRegulations(rows \ {m})

getAllRegulationTitleFromDB(v, only_visible) ==
    LET rows == IF only_visible THEN {r \in v.regulation : r.is_visible = TRUE}
                ELSE v.regulation
        regulations == OrderRegulations(rows)
    IN [result |-> [i \in 1..Len(regulations) |->
                        [id |-> regulations[i].id, title |-> regulations[i].title,
                         category |-> regulations[i].category,
                         is_visible |-> regulations[i].is_visible]],
        category_list |-> CategoryList]

---------------------------------------------------------------------------
(* Regulations *)

ChaptersOf(v, regulation_id) == {c \in v.chapter : c.regulation_id = regulation_id}
ArticlesOf(v, chapters) == {a \in v.article : a.chapter_id \in Ids(chapters)}
ParagraphsOf(v, articles) == {p \in v.paragraph : p.article_id \in Ids(articles)}
ClausesOf(v, paragraphs) == {c \in v.clause : c.paragraph_id \in Ids(paragraphs)}
RevisionsOf(v, regulation_id) == {x \in v.revision : x.regulation_id = regulation_id}

\* The rows deletChapter deletes: the whole tree of the regulation and its revisions.
deletChapter(v, id) ==
    LET chapters == ChaptersOf(v, id)
        articles == ArticlesOf(v, chapters)
        paragraphs == ParagraphsOf(v, articles)
    IN [EmptyTables EXCEPT
            !.chapter = chapters,
            !.article = articles,
            !.paragraph = paragraphs,
            !.clause = ClausesOf(v, paragraphs),
            !.revision = RevisionsOf(v, id)]

RECURSIVE AddClauses(_, _, _)
AddClauses(acc, paragraph_id, clauses) ==
    IF clauses = <<>> \/ ~acc.ok THEN acc
    ELSE LET clause_data == Head(clauses) IN
         IF clause_data.content = Missing
         THEN [acc EXCEPT !.ok = FALSE]
         ELSE AddClauses(
                [acc EXCEPT
                    !.new.clause = @ \cup
                        {[id |-> acc.seq.clause, paragraph_id |-> paragraph_id,
                          number |-> clause_data.number,
                          content |-> clause_data.content]},
                    !.seq.clause = @ + 1],
                paragraph_id, Tail(clauses))

RECURSIVE AddParagraphs(_, _, _)
AddParagraphs(acc, article_id, paragraphs) ==
    IF paragraphs = <<>> \/ ~acc.ok THEN acc
    ELSE LET paragraph_data == Head(paragraphs) IN
         IF paragraph_data.content = Missing
         THEN [acc EXCEPT !.ok = FALSE]
         ELSE LET paragraph_id == acc.seq.paragraph
                  acc1 == [acc EXCEPT
                            !.new.paragraph = @ \cup
                                {[id |-> paragraph_id, article_id |-> article_id,
                                  number |-> paragraph_data.number,
                                  content |-> paragraph_data.content]},
                            !.seq.paragraph = @ + 1]
              IN AddParagraphs(AddClauses(acc1, paragraph_id, paragraph_data.clauses),
                               article_id, Tail(paragraphs))

RECURSIVE AddArticles(_, _, _)
AddArticles(acc, chapter_id, articles) ==
    IF articles = <<>> \/ ~acc.ok THEN acc
    ELSE LET article_data == Head(articles) IN
         IF article_data.title = Missing THEN [acc EXCEPT !.ok = FALSE]
         ELSE LET article_id == acc.seq.article
                  acc1 == [acc EXCEPT
                            !.new.article = @ \cup
                                {[id |-> article_id, chapter_id |-> chapter_id,
                                  title |-> article_data.title,
                                  sort_index |-> article_data.sort_index]},
                            !.seq.article = @ + 1]
              IN AddArticles(AddParagraphs(acc1, article_id, article_data.paragraphs),
                             chapter_id, Tail(articles))

RECURSIVE AddChapters(_, _, _)
AddChapters(acc, regulation_id, content) ==
    IF content = <<>> \/ ~acc.ok THEN acc
    ELSE LET chapter_data == Head(content) IN
         IF chapter_data.title = Missing THEN [acc EXCEPT !.ok = FALSE]
         ELSE LET chapter_id == acc.seq.chapter
                  acc1 == [acc EXCEPT
                            !.new.chapter = @ \cup
                                {[id |-> chapter_id, regulation_id |-> regulation_id,
                                  number |-> chapter_data.number,
                                  title |-> chapter_data.title]},
                            !.seq.chapter = @ + 1]
              IN AddChapters(AddArticles(acc1, chapter_id, chapter_data.articles),
                             regulation_id, Tail(content))

RECURSIVE AddRevisions(_, _, _)
\* datetime.strptime(rev["date"], "%Y-%m-%d") raises on a date it cannot parse.
AddRevisions(acc, regulation_id, revision) ==
    IF revision = <<>> \/ ~acc.ok THEN acc
    ELSE LET rev == Head(revision) IN
         IF rev.date = Missing THEN [acc EXCEPT !.ok = FALSE]
         ELSE AddRevisions(
                [acc EXCEPT
                    !.new.revision = @ \cup
                        {[id |-> acc.seq.revision, regulation_id |-> regulation_id,
                          modified_at |-> rev.date, note |-> rev.note]},
                    !.seq.revision = @ + 1],
                regulation_id, Tail(revision))

\* The chapters first, then the revisions.
addChapter(acc, content, revision, regulation_id) ==
    AddRevisions(AddChapters(acc, regulation_id, content), regulation_id, revision)

RECURSIVE SortArticles(_)
\* sorted(chapter.articles, key=float(sort_index)): stable, so equal keys keep
\* the order of the query.
SortArticles(articles) ==
    IF articles = {} THEN <<>>
    ELSE LET m == CHOOSE x \in articles : \A y \in articles :
                    x.sort_index < y.sort_index
                    \/ (x.sort_index = y.sort_index /\ x.id <= y.id)
         IN <<m>> \o SortArticles(articles \ {m})

SerializeClauses(v, para) ==
    LET cs == SortById(ClausesOf(v, {para}))
    IN [i \in 1..Len(cs) |->
            [id |-> cs[i].id, number |-> cs[i].number, content |-> cs[i].content]]

SerializeParagraphs(v, article) ==
    LET ps == SortById(ParagraphsOf(v, {article}))
    IN [i \in 1..Len(ps) |->
            [id |-> ps[i].id, number |-> ps[i].number, content |-> ps[i].content,
             clauses |-> SerializeClauses(v, ps[i])]]

SerializeArticles(v, chapter) ==
    LET as == SortArticles(ArticlesOf(v, {chapter}))
    IN [i \in 1..Len(as) |->
            [id |-> as[i].id, title |-> as[i].title, sort_index |-> as[i].sort_index,
             paragraphs |-> SerializeParagraphs(v, as[i])]]

\* The list with the dictionary getRegulationContentFromDB returns, empty for None.
getRegulationContentFromDB(v, reg_id) ==
    LET regs == {x \in v.regulation : x.id = reg_id} IN
    IF regs = {} THEN <<>>
    ELSE LET regulation == CHOOSE x \in regs : TRUE
             chapters == SortById(ChaptersOf(v, reg_id))
             revisions == SortById(RevisionsOf(v, reg_id))
         IN << [id |-> regulation.id,
                title |-> regulation.title,
                category |-> regulation.category,
                is_visible |-> regulation.is_visible,
                chapters |-> [i \in 1..Len(chapters) |->
                    [id |-> chapters[i].id, number |-> chapters[i].number,
                     title |-> chapters[i].title,
                     articles |-> SerializeArticles(v, chapters[i])]],
                revisions |-> [i \in 1..Len(revisions) |->
                    [id |-> revisions[i].id,
                     modified_at |-> revisions[i].modified_at,
                     note |-> revisions[i].note]]] >>

RegDetailStatus(result) == IF result # <<>> THEN 200 ELSE 404

\* The answer of a detail route: admin_*_getdetail and viewer_*_getdetail.
DetailResponse(v, route, kind, id) ==
    IF kind = "regulations"
    THEN LET result == getRegulationContentFromDB(v, id)
         IN [status |-> RegDetailStatus(result), body |-> result]
    ELSE LET result == getMeetContentFromDB(v, id, kind = "minutes")
         IN [status |-> MeetDetailStatus(route, kind, result), body |-> result]

---------------------------------------------------------------------------
(* Requests *)

Idle == \A r \in Slots : pc[r] = "idle"

NoAnswer ==
    [op |-> "none", route |-> "admin", kind |-> "notifi", auth |-> TRUE, id |-> NULL,
     status |-> 0, body |-> <<>>]

\* The request repeats the slot's previous one: that one succeeded, nothing was
\* deleted since, and this one names the same row (the row the previous request
\* created or edited) and carries the same tree.
Again(r, kind, idf, content) ==
    /\ resp[r] = 200
    /\ req[r].n = nreq
    /\ req[r].kind = kind
    /\ req[r].id = idf
    /\ req[r].content = content

Answer(r, status) == resp' = [resp EXCEPT ![r] = status]

NewAcc == [new |-> EmptyTables, seq |-> seq, ok |-> TRUE]

RegulationRow(id, cols, user_id) ==
    [id |-> id, title |-> cols.title, category |-> cols.category,
     is_visible |-> cols.is_visible, user_id |-> user_id]

\* upload_notifi and upload_record up to db.session.flush(): the files of the
\* form go to the bucket, the row is created or fetched and its columns are set.
UploadMeet(r, kind, auth, idf, cols, form, ts, failing) ==
    LET is_record == kind = "minutes"
        table == EventTable(is_record)
        v == View(r)
        up == UploadNewFiles(form.parts, v.file, ts, failing,
                             [ok |-> TRUE, info |-> {}, put |-> {}])
        is_new == idf = NewId
        found == {e \in v[table] : e.id = idf}
        id == IF is_new THEN seq[table] ELSE idf
        content == ParseContent(parse_json_field(form), up.info)
        rq == [n |-> nreq + 1, again |-> Again(r, kind, idf, content),
               auth |-> auth, kind |-> kind, is_new |-> is_new, id |-> id,
               cols |-> cols, content |-> content,
               deleted_files |-> DeletedFiles(parse_json_field(form)),
               revision |-> <<>>, json |-> form.json]
    IN
    /\ pc[r] = "idle"
    /\ last = NoAnswer
    /\ nreq < MaxRequests
    /\ pre' = [pre EXCEPT ![r] = [db |-> db, blobs |-> blobs]]
    /\ s3del' = [s3del EXCEPT ![r] = {}]
    /\ UNCHANGED <<db, last>>
    /\ IF ~login_required(auth)
       THEN /\ Answer(r, 302)
            /\ req' = [req EXCEPT ![r] = [IdleReq EXCEPT !.auth = FALSE, !.kind = kind]]
            /\ UNCHANGED <<blobs, seq, pc, tx, nreq>>
       ELSE /\ nreq' = nreq + 1
            /\ blobs' = blobs \cup up.put
            /\ req' = [req EXCEPT ![r] = rq]
            /\ CASE ~up.ok \/ (is_new /\ ~ConstructorAccepts(is_record)) ->
                        \* except Exception: rollback, 500
                        /\ Answer(r, 500)
                        /\ UNCHANGED <<seq, pc, tx>>
                 [] ~is_new /\ found = {} ->
                        /\ Answer(r, 404)
                        /\ UNCHANGED <<seq, pc, tx>>
                 [] is_new /\ up.ok /\ ConstructorAccepts(is_record) ->
                        /\ Answer(r, 0)
                        /\ seq' = [seq EXCEPT ![table] = @ + 1]
                        /\ tx' = [tx EXCEPT ![r] = Pending(@, EmptyTables,
                                    [EmptyTables EXCEPT
                                        ![table] = {EventRow(id, cols, UserId)}])]
                        /\ pc' = [pc EXCEPT ![r] = "add"]
                 [] OTHER ->
                        /\ Answer(r, 0)
                        /\ tx' = [tx EXCEPT ![r] = Pending(@,
                                    [EmptyTables EXCEPT ![table] = found],
                                    [EmptyTables EXCEPT ![table] =
                                        {EventRow(id, cols, e.user_id) : e \in found}])]
                        /\ pc' = [pc EXCEPT ![r] = "delete"]
                        /\ UNCHANGED seq

\* The rows deleted when the S3 delete of the keys in `failed` raised, if the
\* File row were deleted only after a successful S3 delete.
DeletedRows_UnlessFailed(gone, failed) ==
    [gone EXCEPT !.file = {f \in @ : f.filename_with_timestamp \notin failed}]

\* The rows deleted when the S3 delete of the keys in `failed` raised: the
\* exception is caught and db.session.delete(file) follows the try statement.
DeletedRows(gone, failed) == gone

\* deletSchedule(id, deleted_files, is_record) as upload_* calls it on an edit.
\* Without old schedules it returns at once; otherwise it asks S3 to delete the
\* blob of every doomed file (`failed` are the keys whose delete raises, which is
\* caught), deletes the rows and commits.
MeetDelete(r) ==
    LET v == View(r)
        gone == deletSchedule(v, req[r].id, req[r].kind = "minutes",
                              req[r].deleted_files)
        keys == {f.filename_with_timestamp : f \in gone.file}
    IN
    /\ pc[r] = "delete"
    /\ req[r].kind \in {"notifi", "minutes"}
    /\ pc' = [pc EXCEPT ![r] = "add"]
    /\ UNCHANGED <<seq, req, pre, resp, last, nreq>>
    /\ IF gone.schedule = {}
       THEN UNCHANGED <<db, blobs, tx, s3del>>
       ELSE /\ \E failed \in SUBSET keys :
                /\ blobs' = blobs \ (keys \ failed)
                /\ db' = Committed(Pending(tx[r], DeletedRows(gone, failed),
                                           EmptyTables))
            /\ s3del' = [s3del EXCEPT ![r] = @ \cup keys]
            /\ tx' = [tx EXCEPT ![r] = EmptyTx]

\* addSchedule(data["content"], id, is_record), the commit and the answer; an
\* exception anywhere rolls the session back and answers 500.
MeetAdd(r) ==
    LET v == View(r)
        acc == addSchedule(NewAcc, req[r].content, req[r].id,
                           req[r].kind = "minutes", v.file)
    IN
    /\ pc[r] = "add"
    /\ req[r].kind \in {"notifi", "minutes"}
    /\ pc' = [pc EXCEPT ![r] = "idle"]
    /\ seq' = acc.seq
    /\ tx' = [tx EXCEPT ![r] = EmptyTx]
    /\ UNCHANGED <<blobs, req, pre, last, s3del, nreq>>
    /\ IF acc.ok
       THEN /\ db' = Committed(Pending(tx[r], EmptyTables, acc.new))
            /\ Answer(r, 200)
       ELSE /\ UNCHANGED db
            /\ Answer(r, 500)

\* upload_regulation up to db.session.flush().
UploadReg(r, auth, idf, cols, form) ==
    LET v == View(r)
        is_new == idf = NewId
        found == {e \in v.regulation : e.id = idf}
        id == IF is_new THEN seq.regulation ELSE idf
        rq == [n |-> nreq + 1, again |-> Again(r, "regulations", idf, form.content),
               auth |-> auth, kind |-> "regulations", is_new |-> is_new, id |-> id,
               cols |-> cols, content |-> form.content,
               deleted_files |-> <<>>, revision |-> form.revision, json |-> TRUE]
    IN
    /\ pc[r] = "idle"
    /\ last = NoAnswer
    /\ nreq < MaxRequests
    /\ pre' = [pre EXCEPT ![r] = [db |-> db, blobs |-> blobs]]
    /\ s3del' = [s3del EXCEPT ![r] = {}]
    /\ UNCHANGED <<db, blobs, last>>
    /\ IF ~login_required(auth)
       THEN /\ Answer(r, 302)
            /\ req' = [req EXCEPT ![r] =
                        [IdleReq EXCEPT !.auth = FALSE, !.kind = "regulations"]]
            /\ UNCHANGED <<seq, pc, tx, nreq>>
       ELSE /\ nreq' = nreq + 1
            /\ req' = [req EXCEPT ![r] = rq]
            /\ CASE ~is_new /\ found = {} ->
                        /\ Answer(r, 404)
                        /\ UNCHANGED <<seq, pc, tx>>
                 [] is_new ->
                        /\ Answer(r, 0)
                        /\ seq' = [seq EXCEPT !.regulation = @ + 1]
                        /\ tx' = [tx EXCEPT ![r] = Pending(@, EmptyTables,
                                    [EmptyTables EXCEPT
                                        !.regulation = {RegulationRow(id, cols, UserId)}])]
                        /\ pc' = [pc EXCEPT ![r] = "add"]
                 [] OTHER ->
                        /\ Answer(r, 0)
                        /\ tx' = [tx EXCEPT ![r] = Pending(@,
                                    [EmptyTables EXCEPT !.regulation = found],
                                    [EmptyTables EXCEPT !.regulation =
                                        {RegulationRow(id, cols, e.user_id) : e \in found}])]
                        /\ pc' = [pc EXCEPT ![r] = "delete"]
                        /\ UNCHANGED seq

\* deletChapter(regulation.id): deletes the old tree and commits in every case.
RegDelete(r) ==
    /\ pc[r] = "delete"
    /\ req[r].kind = "regulations"
    /\ pc' = [pc EXCEPT ![r] = "add"]
    /\ db' = Committed(Pending(tx[r], deletChapter(View(r), req[r].id), EmptyTables))
    /\ tx' = [tx EXCEPT ![r] = EmptyTx]
    /\ UNCHANGED <<blobs, seq, req, pre, resp, last, s3del, nreq>>

\* addChapter(data["content"], data["revision"], id), the commit and the answer.
RegAdd(r) ==
    LET acc == addChapter(NewAcc, req[r].content, req[r].revision, req[r].id) IN
    /\ pc[r] = "add"
    /\ req[r].kind = "regulations"
    /\ pc' = [pc EXCEPT ![r] = "idle"]
    /\ seq' = acc.seq
    /\ tx' = [tx EXCEPT ![r] = EmptyTx]
    /\ UNCHANGED <<blobs, req, pre, last, s3del, nreq>>
    /\ IF acc.ok
       THEN /\ db' = Committed(Pending(tx[r], EmptyTables, acc.new))
            /\ Answer(r, 200)
       ELSE /\ UNCHANGED db
            /\ Answer(r, 500)

\* A delete of the row alone, without its children.
CascadeOf_RowOnly(v, kind, row) ==
    IF kind = "regulations"
    THEN [EmptyTables EXCEPT !.regulation = {row}]
    ELSE [EmptyTables EXCEPT ![EventTable(kind = "minutes")] = {row}]

\* The rows db.session.delete(row) removes with the row: the relationships
\* cascade "all, delete-orphan"; File rows are no part of the cascade.
CascadeOf(v, kind, row) ==
    IF kind = "regulations"
    THEN [deletChapter(v, row.id) EXCEPT !.regulation = {row}]
    ELSE LET scheds == SchedulesOf(v, row.id, kind = "minutes")
             dets == DetailsOf(v, scheds)
         IN [EmptyTables EXCEPT
                ![EventTable(kind = "minutes")] = {row},
                !.schedule = scheds,
                !.detail = dets,
                !.detail_file = LinksOf(v, dets)]

KindTable(kind) ==
    IF kind = "regulations" THEN "regulation" ELSE EventTable(kind = "minutes")

\* delete_notifi, delete_record and delete_regulation.
DeleteRow(kind, auth, idf) ==
    LET found == {e \in db[KindTable(kind)] : e.id = idf}
        status == IF ~login_required(auth) THEN 302
                  ELSE IF idf = NoId THEN 400
                  ELSE IF found = {} THEN 404
                  ELSE 200
    IN
    /\ Idle
    /\ last = NoAnswer
    /\ nreq < MaxRequests
    /\ nreq' = IF login_required(auth) THEN nreq + 1 ELSE nreq
    /\ last' = [op |-> "delete", route |-> "admin", kind |-> kind, auth |-> auth,
                id |-> IF login_required(auth) THEN idf ELSE NULL,
                status |-> status, body |-> <<>>]
    /\ db' = IF status = 200
             THEN LET gone == CascadeOf(db, kind, CHOOSE e \in found : TRUE)
                  IN [t \in Tables |-> db[t] \ gone[t]]
             ELSE db
    /\ UNCHANGED <<blobs, seq, pc, req, tx, pre, resp, s3del>>

\* admin_*_getdetail and viewer_*_getdetail: they read the committed rows.
ReadDetail(route, kind, id) ==
    LET answer == DetailResponse(db, route, kind, id) IN
    /\ last = NoAnswer
    /\ last' = [op |-> "detail", route |-> route, kind |-> kind, auth |-> TRUE,
                id |-> id, status |-> answer.status, body |-> answer.body]
    /\ UNCHANGED <<db, blobs, seq, pc, req, tx, pre, resp, s3del, nreq>>

---------------------------------------------------------------------------
(* The forms the requests are drawn from *)

NameA == <<"a", ".", "p">>
NameB == <<"b", ".", "p">>
NameSp == <<" ", ".", "p">>
NameUs == <<"_", ".", "p">>

\* An entry of file_dict for a stored file whose display name is its key; the
\* client names the file by its key ("url" is what the lookup of addSchedule
\* compares with filename_with_timestamp).
Ref(name) == [name |-> name, url |-> name]

D(content, file_dict, fileName, deleted_files) ==
    [content |-> content, file_dict |-> file_dict, fileName |-> fileName,
     deleted_files |-> deleted_files]

S(title, details) == [title |-> title, details |-> details]

\* The multipart forms of an upload: content is the value the "content" text
\* stands for, json tells whether the text is JSON at all (content is then unused).
MeetForms ==
    { [content |-> <<>>, parts |-> <<>>, json |-> TRUE],
      [content |-> <<>>, parts |-> <<>>, json |-> FALSE],
      [content |-> << S("s1", << D("c1", <<Ref(NameA)>>, <<>>, <<>>) >>) >>,
       parts |-> <<>>, json |-> TRUE],
      [content |-> << S("s1", << D("c1", <<Ref(NameB)>>, <<>>, <<>>),
                                 D("c2", <<Ref(NameB)>>, <<>>, <<>>) >>) >>,
       parts |-> <<>>, json |-> TRUE],
      [content |-> << S("s2", << D("c2", <<Ref(NameB), Ref(NameA)>>, <<>>, <<>>) >>),
                      S("s1", << D("c1", <<>>, <<>>, <<>>) >>) >>,
       parts |-> <<>>, json |-> TRUE],
      [content |-> << S("s1", << D("c1", <<>>, <<>>, <<NameA, NameB>>) >>) >>,
       parts |-> <<>>, json |-> TRUE],
      [content |-> << S("s1", << D("c1", <<Ref(NameA)>>, <<>>, <<>>) >>),
                      S(Missing, <<>>) >>,
       parts |-> <<>>, json |-> TRUE],
      [content |-> << S("s1", << D("c1", <<>>, <<NameSp>>, <<>>) >>) >>,
       parts |-> <<NameSp>>, json |-> TRUE],
      [content |-> << S("s1", << D("c1", <<>>, <<NameUs>>, <<>>) >>) >>,
       parts |-> <<NameUs>>, json |-> TRUE] }

Clause(number, content) == [number |-> number, content |-> content]
Para(number, content, clauses) ==
    [number |-> number, content |-> content, clauses |-> clauses]
Art(title, sort_index, paragraphs) ==
    [title |-> title, sort_index |-> sort_index, paragraphs |-> paragraphs]
Chap(number, title, articles) ==
    [number |-> number, title |-> title, articles |-> articles]
Rev(date, note) == [date |-> date, note |-> note]

\* sort_index is a real number; the model counts it in tenths (25 is 2.5).
RegForms ==
    { [content |-> <<>>, revision |-> <<>>],
      [content |-> << Chap(1, "ch1",
                        << Art("a3", 30, << Para(1, "p1", <<Clause(1, "k1"),
                                                           Clause(2, "k2")>>),
                                            Para(2, "p2", <<>>) >>),
                           Art("a2.5", 25, <<>>),
                           Art("a1", 10, <<>>) >>),
                      Chap(2, "ch2", <<>>) >>,
       revision |-> << Rev("2024-01-01", "n1") >>],
      [content |-> << Chap(1, "ch1", << Art("a1", 10, <<>>) >>) >>,
       revision |-> << Rev(Missing, "n1") >>] }

\* The scalar fields of a form.  No form carries a MeetingTranscript or a
\* videoFile part, so meeting_transcript is "" and video is the videoLink of a
\* form whose uploadType is "link" and "" otherwise.
Cols ==
    { [title |-> "t1", is_visible |-> TRUE, category |-> "c1",
       session |-> 1, datestart |-> 1, upload_type |-> "link",
       meeting_transcript |-> <<>>, video |-> VideoLink],
      [title |-> "t2", is_visible |-> FALSE, category |-> "c1",
       session |-> 2, datestart |-> 1, upload_type |-> "file",
       meeting_transcript |-> <<>>, video |-> <<>>] }

Kinds == {"notifi", "minutes", "regulations"}
Routes == {"admin", "viewer"}
TimeStamps == {<<"1">>}

\* The ids a client may name: the rows that exist and one that does not.
KnownIds(kind) == Ids(db[KindTable(kind)]) \cup {seq[KindTable(kind)]}

---------------------------------------------------------------------------
(* The database the program starts on holds one record with one schedule,   *)
(* one detail and one file: rows of the record table come from the          *)
(* deployment's database, not from this version of upload_record.           *)

SeedTables ==
    [EmptyTables EXCEPT
        !.record = {[id |-> 1, title |-> "t1", session |-> 1, datestart |-> 1,
                     upload_type |-> "link", meeting_transcript |-> <<>>,
                     video |-> VideoLink, is_visible |-> TRUE, user_id |-> UserId]},
        !.schedule = {[id |-> 1, title |-> "s1", notification_id |-> NULL,
                       record_id |-> 1]},
        !.detail = {[id |-> 1, content |-> "c1", schedule_id |-> 1]},
        !.file = {[id |-> 1, original_filename |-> NameA,
                   filename_with_timestamp |-> NameA]},
        !.detail_file = {[id |-> 1, detail_id |-> 1, file_id |-> 1]}]

Init ==
    /\ db = SeedTables
    /\ blobs = {NameA}
    /\ seq = [t \in Tables |-> IF SeedTables[t] = {} THEN 1 ELSE 2]
    /\ pc = [r \in Slots |-> "idle"]
    /\ req = [r \in Slots |-> IdleReq]
    /\ tx = [r \in Slots |-> EmptyTx]
    /\ pre = [r \in Slots |-> [db |-> SeedTables, blobs |-> {NameA}]]
    /\ resp = [r \in Slots |-> 0]
    /\ last = NoAnswer
    /\ s3del = [r \in Slots |-> {}]
    /\ nreq = 0

Upload(r) ==
    \/ \E kind \in {"notifi", "minutes"}, auth \in BOOLEAN, cols \in Cols,
          form \in MeetForms :
        \E idf \in {NewId} \cup KnownIds(kind), ts \in TimeStamps,
           failing \in SUBSET Range(form.parts) :
            UploadMeet(r, kind, auth, idf, cols, form, ts, failing)
    \/ MeetDelete(r)
    \/ MeetAdd(r)
    \/ \E auth \in BOOLEAN, cols \in Cols, form \in RegForms :
        \E idf \in {NewId} \cup KnownIds("regulations") :
            UploadReg(r, auth, idf, cols, form)
    \/ RegDelete(r)
    \/ RegAdd(r)

Delete ==
    \E kind \in Kinds, auth \in BOOLEAN :
        \E idf \in {NoId} \cup KnownIds(kind) : DeleteRow(kind, auth, idf)

Read ==
    \E route \in Routes, kind \in Kinds :
        \E id \in KnownIds(kind) : ReadDetail(route, kind, id)

\* The client of the single-step requests takes the answer; it sends its next
\* request after that.
Deliver ==
    /\ last # NoAnswer
    /\ last' = NoAnswer
    /\ UNCHANGED <<db, blobs, seq, pc, req, tx, pre, resp, s3del, nreq>>

\* One request at a time writes; reads and deletes come in between.
Next == Upload("w1") \/ Delete \/ Read \/ Deliver

Spec == Init /\ [][Next]_vars

---------------------------------------------------------------------------
(* What the claims compare *)

MeetKinds == {"notifi", "minutes"}

\* The step ends an upload request of an authenticated caller on slot r.
Ends(r) ==
    /\ req'[r].auth
    /\ resp'[r] # 0
    /\ pc[r] # "idle" \/ req'[r].n # req[r].n

\* The tree of a meeting read without the ids the database gave its nodes.
ReadTree(schedules) ==
    [i \in 1..Len(schedules) |->
        [title |-> schedules[i].title,
         details |-> [j \in 1..Len(schedules[i].details) |->
            [content |-> schedules[i].details[j].content,
             file_name |-> schedules[i].details[j].file_name,
             file_urls |-> schedules[i].details[j].file_urls]]]]

\* The same shape of the tree a request submitted.
SubmittedTree(content) ==
    [i \in 1..Len(content) |->
        [title |-> content[i].title,
         details |-> [j \in 1..Len(content[i].details) |->
            [content |-> content[i].details[j].content,
             file_name |-> [k \in 1..Len(content[i].details[j].file_urls) |->
                                content[i].details[j].file_urls[k].original],
             file_urls |-> [k \in 1..Len(content[i].details[j].file_urls) |->
                                Url(content[i].details[j].file_urls[k].safe)]]]]]

\* What a detail read of a row shows: its columns and its tree, ids left out.
Shown(body) ==
    IF body = <<>> THEN <<>>
    ELSE << [title |-> body[1].title, is_visible |-> body[1].is_visible,
             schedules |-> ReadTree(body[1].schedules)] >>

\* C1: an edit upload that raises leaves the persisted rows as they were before
\* the request (the parent's columns and its whole old subtree).
C1_EditAllOrNothing ==
    [][\A r \in Slots :
        (Ends(r) /\ ~req'[r].is_new /\ resp'[r] = 500) => db' = pre'[r].db]_vars

Referencing(tables, f) == {l \in tables.detail_file : l.file_id = f.id}

\* The file hangs on a detail of a schedule of the meeting event (kind, id).
Under(tables, f, kind, id) ==
    \E l \in tables.detail_file, d \in tables.detail, sc \in tables.schedule :
        /\ l.file_id = f.id
        /\ l.detail_id = d.id
        /\ d.schedule_id = sc.id
        /\ IF kind = "minutes" THEN sc.record_id = id ELSE sc.notification_id = id

\* C3: while the old subtree of a meeting event is deleted, a File row is deleted
\* (and S3 is asked to delete its blob) exactly if it hangs on the subtree, one
\* detail of the whole system references it and its safe name is in the
\* request's deleted files; every other File row and blob stays.
C3_DeletesExactlyUnusedListedFiles ==
    [][\A r \in Slots :
        (pc[r] = "delete" /\ pc'[r] = "add" /\ req[r].kind \in MeetKinds)
        => LET listed(f) ==
                  /\ Under(db, f, req[r].kind, req[r].id)
                  /\ Cardinality(Referencing(db, f)) = 1
                  /\ \E i \in 1..Len(req[r].deleted_files) :
                        req[r].deleted_files[i] = f.filename_with_timestamp
           IN /\ \A f \in db.file : (f \notin db'.file) <=> listed(f)
              /\ db'.file \subseteq db.file
              /\ s3del'[r] = {f.filename_with_timestamp : f \in {g \in db.file : listed(g)}}
              /\ blobs' \subseteq blobs
              /\ blobs \ blobs' \subseteq s3del'[r]]_vars

\* C3 witness: the deletion of an old subtree has deleted a File row and its blob.
C3_Witness ==
    \E r \in Slots :
        /\ pc[r] = "add"
        /\ ~req[r].is_new
        /\ \E f \in pre[r].db.file :
            /\ f \notin db.file
            /\ f.filename_with_timestamp \in s3del[r]
            /\ f.filename_with_timestamp \notin blobs

\* The links of the file that hang on a detail of a schedule of the event.
LinksUnder(tables, f, kind, id) ==
    {l \in Referencing(tables, f) :
        \E d \in tables.detail, sc \in tables.schedule :
            /\ l.detail_id = d.id
            /\ d.schedule_id = sc.id
            /\ IF kind = "minutes" THEN sc.record_id = id ELSE sc.notification_id = id}

\* C4: for a File that two details reference and the request lists as deleted,
\* the deletion of an old subtree that holds one of the two details keeps the
\* File row and its blob, and the deletion of an old subtree that holds both
\* details deletes the File row and asks S3 to delete its blob.
C4_LastReferenceDeletesFile ==
    [][\A r \in Slots :
        (pc[r] = "delete" /\ pc'[r] = "add" /\ req[r].kind \in MeetKinds)
        => \A f \in db.file :
            (/\ Cardinality(Referencing(db, f)) = 2
             /\ f.filename_with_timestamp \in Range(req[r].deleted_files))
            => LET under == LinksUnder(db, f, req[r].kind, req[r].id) IN
               /\ Cardinality(under) = 1
                    => /\ f \in db'.file
                       /\ f.filename_with_timestamp \in blobs
                            => f.filename_with_timestamp \in blobs'
               /\ Cardinality(under) = 2
                    => /\ f \notin db'.file
                       /\ f.filename_with_timestamp \in s3del'[r]]_vars

\* The tree of a regulation read without the ids the database gave its nodes.
RegReadTree(chapters) ==
    [i \in 1..Len(chapters) |->
        [number |-> chapters[i].number,
         title |-> chapters[i].title,
         articles |-> [j \in 1..Len(chapters[i].articles) |->
            [title |-> chapters[i].articles[j].title,
             sort_index |-> chapters[i].articles[j].sort_index,
             paragraphs |-> [k \in 1..Len(chapters[i].articles[j].paragraphs) |->
                [number |-> chapters[i].articles[j].paragraphs[k].number,
                 content |-> chapters[i].articles[j].paragraphs[k].content,
                 clauses |-> [m \in 1..Len(chapters[i].articles[j].paragraphs[k].clauses) |->
                    [number |-> chapters[i].articles[j].paragraphs[k].clauses[m].number,
                     content |->
                        chapters[i].articles[j].paragraphs[k].clauses[m].content]]]]]]]]

RECURSIVE AscendingPositions(_, _)
\* The positions `left` of the submitted articles in ascending sort_index order,
\* articles of equal sort_index in submitted order.
AscendingPositions(articles, left) ==
    IF left = {} THEN <<>>
    ELSE LET m == CHOOSE x \in left : \A y \in left :
                    \/ articles[x].sort_index < articles[y].sort_index
                    \/ articles[x].sort_index = articles[y].sort_index /\ x <= y
         IN <<m>> \o AscendingPositions(articles, left \ {m})

\* The submitted chapters with the articles of each in ascending sort_index order.
RegSubmittedTree(content) ==
    [i \in 1..Len(content) |->
        [number |-> content[i].number,
         title |-> content[i].title,
         articles |->
            LET order == AscendingPositions(content[i].articles,
                                            1..Len(content[i].articles))
            IN [j \in 1..Len(order) |-> content[i].articles[order[j]]]]]

\* C5: after a successful upload the detail read of the same row shows the
\* submitted columns and exactly the submitted tree, in submitted order, the
\* articles of each chapter in ascending sort_index order.
C5_RoundTrip ==
    [][\A r \in Slots :
        (Ends(r) /\ resp'[r] = 200)
        => IF req'[r].kind \in MeetKinds
           THEN Shown(getMeetContentFromDB(db', req'[r].id, req'[r].kind = "minutes"))
                    = << [title |-> req'[r].cols.title,
                          is_visible |-> req'[r].cols.is_visible,
                          schedules |-> SubmittedTree(req'[r].content)] >>
           ELSE LET body == getRegulationContentFromDB(db', req'[r].id) IN
                /\ body # <<>>
                /\ body[1].title = req'[r].cols.title
                /\ body[1].category = req'[r].cols.category
                /\ body[1].is_visible = req'[r].cols.is_visible
                /\ RegReadTree(body[1].chapters) = RegSubmittedTree(req'[r].content)]_vars

\* No two File rows share a storage-safe name.
UniqueSafeNames(files) ==
    \A f \in files, g \in files :
        f.filename_with_timestamp = g.filename_with_timestamp => f = g

\* C6: no two File rows share a storage-safe name, and a successful upload that
\* repeats the request before it (same row, same tree, nothing listed as deleted)
\* leaves the File rows as that request left them.
C6_ResubmissionKeepsFiles ==
    /\ [](UniqueSafeNames(db.file))
    /\ [][\A r \in Slots :
            (/\ Ends(r)
             /\ resp'[r] = 200
             /\ req'[r].kind \in MeetKinds
             /\ req'[r].again
             /\ req'[r].deleted_files = <<>>)
            => db'.file = pre'[r].db.file]_vars

\* C6 witness: a tree with a file was submitted a second time and accepted.
C6_Witness ==
    \E r \in Slots :
        /\ pc[r] = "idle"
        /\ resp[r] = 200
        /\ req[r].kind \in MeetKinds
        /\ req[r].again
        /\ req[r].deleted_files = <<>>
        /\ \E i \in 1..Len(req[r].content) :
            \E j \in 1..Len(req[r].content[i].details) :
                req[r].content[i].details[j].file_urls # <<>>

\* Every schedule has its title and every detail its content.
WellFormed(content) ==
    \A i \in 1..Len(content) :
        /\ content[i].title # Missing
        /\ \A j \in 1..Len(content[i].details) :
            content[i].details[j].content # Missing

\* C7: an upload of a well-formed tree with id -1 by an authenticated caller
\* succeeds and adds exactly one row of the endpoint's kind, owned by the caller,
\* with the submitted columns; a successful upload with the id of an existing
\* event keeps the ids of the table and gives that row the submitted columns.
C7_CreateThenEditInPlace ==
    [][\A r \in Slots :
        (Ends(r) /\ req'[r].kind \in MeetKinds /\ WellFormed(req'[r].content))
        => LET table == EventTable(req'[r].kind = "minutes")
               row == EventRow(req'[r].id, req'[r].cols, UserId)
           IN IF req'[r].is_new
              THEN /\ resp'[r] = 200
                   /\ req'[r].id \notin Ids(pre'[r].db[table])
                   /\ db'[table] = pre'[r].db[table] \cup {row}
              ELSE resp'[r] = 200
                   => /\ Ids(db'[table]) = Ids(pre'[r].db[table])
                      /\ \E e \in db'[table] :
                            /\ e.id = req'[r].id
                            /\ e.title = req'[r].cols.title
                            /\ e.is_visible = req'[r].cols.is_visible]_vars

\* C8: a step of an upload request or of a delete request of an unauthenticated
\* caller changes no row and no blob.
C8_UnauthenticatedChangesNothing ==
    [][(\/ \E r \in Slots : ~req'[r].auth /\ last' = last
        \/ last.op = "none" /\ last'.op = "delete" /\ ~last'.auth)
       => /\ db' = db
          /\ blobs' = blobs
          /\ tx' = tx]_vars

\* C8 witness: an unauthenticated upload and then an unauthenticated delete
\* were answered.
C8_Witness ==
    /\ \E r \in Slots : ~req[r].auth /\ resp[r] = 302
    /\ last.op = "delete"
    /\ ~last.auth
    /\ last.status = 302

\* C9: a detail read on a viewer route shows no row whose is_visible is false.
C9_ViewerShowsOnlyVisible ==
    (last.op = "detail" /\ last.route = "viewer" /\ last.body # <<>>)
    => last.body[1].is_visible

\* C10: a detail read of an id that names no row answers 404.
C10_MissingIdAnswers404 ==
    (/\ last.op = "detail"
     /\ last.id \notin Ids(db[KindTable(last.kind)]))
    => last.status = 404

---------------------------------------------------------------------------
(* File names: generate_unique_filename applied to every name up to        *)
(* MaxNameLen characters, over every file table drawn from FilePool.        *)

MaxNameLen == 3

NameChars == {"a", "p", ".", " ", "/", "_", "zh", "-"}

RECURSIVE NamesUpTo(_)
NamesUpTo(n) ==
    IF n = 0 THEN {<<>>}
    ELSE LET shorter == NamesUpTo(n - 1)
         IN shorter \cup {Append(w, c) : w \in shorter, c \in NameChars}

\* The example of the documentation: "a/b c.txt"
NameExample == <<"a", "/", "b", " ", "c", ".", "t", "x", "t">>

FileNames == (NamesUpTo(MaxNameLen) \ {<<>>}) \cup {NameExample}

\* Rows earlier uploads leave: "a.p", " .p" (stored under "_.p") and a second
\* "a.p" uploaded at time 0 (stored under "a_0.p").
FilePool ==
    { [id |-> 1, original_filename |-> NameA, filename_with_timestamp |-> NameA],
      [id |-> 2, original_filename |-> NameSp, filename_with_timestamp |-> NameUs],
      [id |-> 3, original_filename |-> NameA,
       filename_with_timestamp |-> <<"a", "_", "0", ".", "p">>] }

InitNames ==
    /\ \E files \in SUBSET FilePool : db = [EmptyTables EXCEPT !.file = files]
    /\ blobs = {}
    /\ seq = [t \in Tables |-> 4]
    /\ pc = [r \in Slots |-> "idle"]
    /\ req = [r \in Slots |-> IdleReq]
    /\ tx = [r \in Slots |-> EmptyTx]
    /\ pre = [r \in Slots |-> [db |-> EmptyTables, blobs |-> {}]]
    /\ resp = [r \in Slots |-> 0]
    /\ last = NoAnswer
    /\ s3del = [r \in Slots |-> {}]
    /\ nreq = 0

\* safe = generate_unique_filename(original), as getDataFromFrontend calls it.
AllocateName(original, ts) ==
    /\ last = NoAnswer
    /\ last' = [NoAnswer EXCEPT
                    !.op = "allocate",
                    !.body = << [original |-> original,
                                 result |-> generate_unique_filename(
                                                original, db.file, ts)] >>]
    /\ UNCHANGED <<db, blobs, seq, pc, req, tx, pre, resp, s3del, nreq>>

NextNames ==
    \/ \E original \in FileNames, ts \in TimeStamps : AllocateName(original, ts)
    \/ Deliver

SpecNames == InitNames /\ [][NextNames]_vars

SafeNames(files) == {f.filename_with_timestamp : f \in files}

\* C11: generate_unique_filename returns the sanitised name when no File row
\* has it as storage-safe name and a timestamped name when one has, so the name
\* it returns is the storage-safe name of no File row.
C11_AllocatedNameIsFresh ==
    (last.op = "allocate" /\ last.body[1].result.ok)
    => LET original == last.body[1].original
           safe == last.body[1].result.safe
           clean == SanitizedName(original).safe
       IN /\ clean \notin SafeNames(db.file) => safe = clean
          /\ clean \in SafeNames(db.file) => safe # clean
          /\ safe \notin SafeNames(db.file)

\* C12: the sanitised name has the length of the input, keeps every allowed
\* character and the last dot in place, has an underscore wherever the input has
\* another character, and is left unchanged by a second sanitisation.
C12_SanitizedNameShape ==
    (last.op = "allocate" /\ last.body[1].result.ok)
    => LET original == last.body[1].original
           clean == SanitizedName(original).safe
       IN /\ Len(clean) = Len(original)
          /\ \A i \in 1..Len(original) :
                clean[i] = IF original[i] \in AllowedChars THEN original[i] ELSE "_"
          /\ \A i \in 1..Len(clean) : clean[i] \in AllowedChars
          /\ LastDot(clean) = LastDot(original)
          /\ SanitizedName(clean).safe = clean
          /\ original = NameExample
                => clean = <<"a", "_", "b", "_", "c", ".", "t", "x", "t">>

\* C12 witness: the documentation's example was sanitised.
C12_Witness ==
    /\ last.op = "allocate"
    /\ last.body[1].original = NameExample
    /\ last.body[1].result.ok
    /\ last.body[1].result.safe = <<"a", "_", "b", "_", "c", ".", "t", "x", "t">>

---------------------------------------------------------------------------
(* Listings and detail reads over stored events and regulations: the       *)
(* tables are drawn from EventPool and RegulationPool.                      *)

NameV == <<"v", ".", "p">>
NameT == <<"t", ".", "p">>

Event(id, session, datestart, is_visible, upload_type, video, meeting_transcript) ==
    [id |-> id, title |-> "t1", session |-> session, datestart |-> datestart,
     upload_type |-> upload_type, meeting_transcript |-> meeting_transcript,
     video |-> video, is_visible |-> is_visible, user_id |-> UserId]

\* Events as uploads leave them: a link with or without a transcript file, a
\* video file with or without a transcript file, neither.
EventPool ==
    { Event(1, 1, 1, TRUE, "link", VideoLink, <<>>),
      Event(2, 2, 1, FALSE, "file", <<>>, <<>>),
      Event(3, 2, 2, TRUE, "file", NameV, NameT),
      Event(4, 10, 1, TRUE, "link", VideoLink, NameT),
      Event(5, 1, 2, FALSE, "file", <<>>, NameT),
      Event(6, 1, 1, TRUE, "file", NameV, <<>>) }

\* A regulation without a category: the column is nullable.
NullCategory == "<NULL>"

Regulation(id, category, is_visible) ==
    [id |-> id, title |-> "t1", category |-> category, is_visible |-> is_visible,
     user_id |-> UserId]

\* Regulations of the six categories, of another category and of none.
RegulationPool ==
    { Regulation(1, "appendix", TRUE),
      Regulation(2, "judicial", TRUE),
      Regulation(3, "other", TRUE),
      Regulation(4, "constitutional", FALSE),
      Regulation(5, NullCategory, TRUE),
      Regulation(6, "legislative", TRUE),
      Regulation(7, "executive", TRUE),
      Regulation(8, "general", TRUE),
      Regulation(9, "constitutional", TRUE) }

InitList ==
    /\ \/ \E rows \in SUBSET EventPool, is_record \in BOOLEAN :
            db = [EmptyTables EXCEPT ![EventTable(is_record)] = rows]
       \/ \E rows \in SUBSET RegulationPool :
            db = [EmptyTables EXCEPT !.regulation = rows]
    /\ blobs = {}
    /\ seq = [t \in Tables |-> 10]
    /\ pc = [r \in Slots |-> "idle"]
    /\ req = [r \in Slots |-> IdleReq]
    /\ tx = [r \in Slots |-> EmptyTx]
    /\ pre = [r \in Slots |-> [db |-> EmptyTables, blobs |-> {}]]
    /\ resp = [r \in Slots |-> 0]
    /\ last = NoAnswer
    /\ s3del = [r \in Slots |-> {}]
    /\ nreq = 0

\* admin_*_data and viewer_*_data: the admin routes hide the invisible rows
\* from a caller who is not logged in, the viewer routes from everyone.
ListData(route, kind, auth) ==
    LET only_visible == IF route = "viewer" THEN TRUE ELSE ~auth
        listing == IF kind = "regulations"
                   THEN LET got == getAllRegulationTitleFromDB(db, only_visible)
                        IN [items |-> got.result, facets |-> got.category_list]
                   ELSE LET got == getAllMeetTitleFromDB(db, kind = "minutes",
                                                         only_visible)
                        IN [items |-> got.result, facets |-> got.session_list]
    IN
    /\ last = NoAnswer
    /\ last' = [op |-> "list", route |-> route, kind |-> kind, auth |-> auth,
                id |-> NULL, status |-> 200,
                body |-> << [only_visible |-> only_visible,
                             items |-> listing.items,
                             facets |-> listing.facets] >>]
    /\ UNCHANGED <<db, blobs, seq, pc, req, tx, pre, resp, s3del, nreq>>

List == \E route \in Routes, kind \in Kinds, auth \in BOOLEAN : ListData(route, kind, auth)

NextList == List \/ Read \/ Deliver

SpecList == InitList /\ [][NextList]_vars

\* The stored row a listed or serialised item stands for.
RowOf(kind, id) == CHOOSE t \in db[KindTable(kind)] : t.id = id

\* C13: the listing of events holds the visible rows (only_visible) or all rows,
\* each once, by session descending and then start time descending; the session
\* list holds every session of the items once, descending.
C13_MeetListing ==
    (last.op = "list" /\ last.kind \in MeetKinds)
    => LET items == last.body[1].items
           sessions == last.body[1].facets
           rows == db[KindTable(last.kind)]
           shown == IF last.body[1].only_visible
                    THEN {t \in rows : t.is_visible} ELSE rows
       IN /\ last.body[1].only_visible => \A i \in 1..Len(items) : items[i].is_visible
          /\ {items[i].id : i \in 1..Len(items)} = Ids(shown)
          /\ Len(items) = Cardinality(shown)
          /\ \A i \in 1..Len(items) :
                LET t == RowOf(last.kind, items[i].id) IN
                /\ items[i].title = t.title
                /\ items[i].session = t.session
                /\ items[i].is_visible = t.is_visible
          /\ \A i \in 1..Len(items), j \in 1..Len(items) :
                i < j => LET a == RowOf(last.kind, items[i].id)
                             b == RowOf(last.kind, items[j].id)
                         IN \/ a.session > b.session
                            \/ a.session = b.session /\ a.datestart >= b.datestart
          /\ {sessions[i] : i \in 1..Len(sessions)}
                = {items[i].session : i \in 1..Len(items)}
          /\ \A i \in 1..Len(sessions), j \in 1..Len(sessions) :
                i < j => sessions[i] > sessions[j]

\* C13 witness: a listing of the visible rows left an invisible row out and
\* shows rows of three sessions.
C13_Witness ==
    /\ last.op = "list"
    /\ last.kind \in MeetKinds
    /\ last.body[1].only_visible
    /\ \E t \in db[KindTable(last.kind)] : ~t.is_visible
    /\ Len(last.body[1].facets) = 3
    /\ Len(last.body[1].items) >= 4

\* C14: the listing of regulations comes in the order of the six categories,
\* regulations of another category or of none after them, and by ascending id
\* within a category.
C14_RegulationListing ==
    (last.op = "list" /\ last.kind = "regulations")
    => LET items == last.body[1].items
           rank(c) == IF \E k \in 1..6 : last.body[1].facets[k] = c
                      THEN CHOOSE k \in 1..6 : last.body[1].facets[k] = c
                      ELSE 7
           shown == IF last.body[1].only_visible
                    THEN {t \in db.regulation : t.is_visible} ELSE db.regulation
       IN /\ last.body[1].facets = <<"constitutional", "general", "executive",
                                      "legislative", "judicial", "appendix">>
          /\ {items[i].id : i \in 1..Len(items)} = Ids(shown)
          /\ Len(items) = Cardinality(shown)
          /\ \A i \in 1..Len(items) :
                items[i].category = RowOf("regulations", items[i].id).category
          /\ \A i \in 1..Len(items), j \in 1..Len(items) :
                i < j => \/ rank(items[i].category) < rank(items[j].category)
                         \/ /\ rank(items[i].category) = rank(items[j].category)
                            /\ rank(items[i].category) = 7
                                 \/ items[i].category = items[j].category
                            /\ items[i].id < items[j].id

\* C14 witness: a listing shows regulations of all six categories, two of one
\* category, one of another category and one of none.
C14_Witness ==
    /\ last.op = "list"
    /\ last.kind = "regulations"
    /\ Len(last.body[1].items) = 9

\* C17: a serialised event shows video and meeting_transcript as the base URL
\* followed by the field's own stored filename if upload_type is "file" and the
\* field holds a filename, and as stored otherwise.
C17_MediaFields ==
    (/\ last.op = "detail"
     /\ last.kind \in MeetKinds
     /\ last.body # <<>>)
    => LET t == RowOf(last.kind, last.id)
           shown(stored) == IF t.upload_type = "file" /\ stored # <<>>
                            THEN Url(stored) ELSE stored
       IN /\ last.body[1].video = shown(t.video)
          /\ last.body[1].meeting_transcript = shown(t.meeting_transcript)

---------------------------------------------------------------------------
(* Referential integrity *)

\* Every foreign key of the tables names a row of the table it refers to.
LiveParents(v) ==
    /\ \A s \in v.schedule :
        /\ (s.notification_id = NULL) # (s.record_id = NULL)
        /\ s.notification_id # NULL => s.notification_id \in Ids(v.notification)
        /\ s.record_id # NULL => s.record_id \in Ids(v.record)
    /\ \A d \in v.detail : d.schedule_id \in Ids(v.schedule)
    /\ \A l \in v.detail_file :
        /\ l.detail_id \in Ids(v.detail)
        /\ l.file_id \in Ids(v.file)
    /\ \A c \in v.chapter : c.regulation_id \in Ids(v.regulation)
    /\ \A x \in v.revision : x.regulation_id \in Ids(v.regulation)
    /\ \A a \in v.article : a.chapter_id \in Ids(v.chapter)
    /\ \A g \in v.paragraph : g.article_id \in Ids(v.article)
    /\ \A c \in v.clause : c.paragraph_id \in Ids(v.paragraph)

\* C15: in every committed state every child row names exactly one existing
\* parent row; a delete of a parent leaves none of its descendants.
C15_LiveParents == LiveParents(db)

\* C15 witness: the only request so far deleted the stored record, which had a
\* schedule with a detail and a file link; the file stays without links.
C15_Witness ==
    /\ nreq = 1
    /\ last.op = "delete"
    /\ last.kind = "minutes"
    /\ last.status = 200
    /\ db.record = {}
    /\ db.schedule = {} /\ db.detail = {} /\ db.detail_file = {}
    /\ db.file # {}

---------------------------------------------------------------------------
(* Malformed content *)

\* The rows below the events: schedules, details, file links and files.
Subtrees(tables) ==
    [t \in {"schedule", "detail", "detail_file", "file"} |-> tables[t]]

\* C16: an edit upload whose content text is no JSON ends with an error response
\* and leaves the subtree of the event as it was.
C16_MalformedContentRejected ==
    [][\A r \in Slots :
        (/\ Ends(r)
         /\ req'[r].kind \in MeetKinds
         /\ ~req'[r].is_new
         /\ ~req'[r].json)
        => /\ resp'[r] >= 400
           /\ Subtrees(db') = Subtrees(pre'[r].db)]_vars

---------------------------------------------------------------------------
(* Failures of the blob store *)

\* The File rows of the tables with one of the keys.
FilesWithKey(tables, keys) ==
    {f \in tables.file : f.filename_with_timestamp \in keys}

\* C19: when the S3 delete of a file failed during an edit (its blob is still
\* there), the File rows the request chose to delete are all gone, the old
\* schedules are gone, and the request answers 200 unless the new tree raises.
C19_BlobDeleteFailureNotFatal ==
    [][\A r \in Slots :
        (/\ Ends(r)
         /\ req'[r].kind \in MeetKinds
         /\ s3del'[r] \cap blobs' # {})
        => /\ FilesWithKey(pre'[r].db, s3del'[r]) \cap db'.file = {}
           /\ SchedulesOf(pre'[r].db, req'[r].id, req'[r].kind = "minutes")
                \cap db'.schedule = {}
           /\ WellFormed(req'[r].content) => resp'[r] = 200]_vars

\* C19 witness: an edit asked S3 to delete two files, the delete of a.p failed
\* and its blob is still there, both File rows are gone and the answer is 200.
C19_Witness ==
    \E r \in Slots :
        /\ pc[r] = "idle"
        /\ resp[r] = 200
        /\ s3del[r] = {NameA, NameB}
        /\ NameA \in blobs
        /\ FilesWithKey(pre[r].db, s3del[r]) # {}
        /\ FilesWithKey(db, s3del[r]) = {}

\* C20: an upload that ends with an error response leaves the blob store as it
\* was before the request.
C20_ErrorLeavesBlobsUnchanged ==
    [][\A r \in Slots :
        (Ends(r) /\ resp'[r] >= 400) => blobs' = pre'[r].blobs]_vars

---------------------------------------------------------------------------
(* Two edit uploads of the stored record at a time.  Every step reads the    *)
(* rows committed so far (READ COMMITTED) and the session's own pending      *)
(* rows.                                                                     *)

ConcForms ==
    { [content |-> << S("s1", << D("c1", <<Ref(NameA)>>, <<>>, <<>>) >>) >>,
       parts |-> <<>>, json |-> TRUE],
      [content |-> << S("s2", << D("c2", <<Ref(NameB), Ref(NameA)>>, <<>>, <<>>) >>),
                      S("s1", << D("c1", <<>>, <<>>, <<>>) >>) >>,
       parts |-> <<>>, json |-> TRUE],
      [content |-> << S("s1", << D("c1", <<>>, <<>>, <<NameA, NameB>>) >>) >>,
       parts |-> <<>>, json |-> TRUE] }

\* The UPDATE that db.session.flush() sends for the event row waits while
\* another session holds an uncommitted UPDATE of that row.
RowLockFree(r, kind, idf) ==
    \A o \in Slots \ {r} :
        \A e \in tx[o].del[EventTable(kind = "minutes")] : e.id # idf

\* upload_record of a logged-in user for the stored record, up to the flush.
EditConc(r) ==
    \E cols \in Cols, form \in ConcForms, ts \in TimeStamps :
        /\ RowLockFree(r, "minutes", 1)
        /\ UploadMeet(r, "minutes", TRUE, 1, cols, form, ts, {})

NextConc == \E r \in Slots : EditConc(r) \/ MeetDelete(r) \/ MeetAdd(r)

SpecConc == Init /\ [][NextConc]_vars

\* Both slots have completed an edit of the stored record with answer 200.
BothSucceeded ==
    \A r \in Slots :
        /\ pc[r] = "idle"
        /\ resp[r] = 200
        /\ req[r].kind = "minutes"
        /\ req[r].id = 1
        /\ ~req[r].is_new

\* The tree persisted below the stored record.
PersistedTree == ReadTree(getMeetContentFromDB(db, 1, TRUE)[1].schedules)

\* C18: two edit uploads of the same event are not serialised.  When both have
\* succeeded the persisted subtree is the tree of one of them or holds the
\* nodes of both trees (the witness is the state where it holds both).
C18_ConcurrentEditsMix ==
    BothSucceeded
    => LET T1 == SubmittedTree(req["w1"].content)
           T2 == SubmittedTree(req["w2"].content)
       IN PersistedTree \in {T1, T2, T1 \o T2, T2 \o T1}

\* C18 witness: both edits have succeeded with different trees and the
\* persisted subtree is neither of them: it holds the schedules of both.
C18_Witness ==
    /\ BothSucceeded
    /\ LET T1 == SubmittedTree(req["w1"].content)
           T2 == SubmittedTree(req["w2"].content)
       IN /\ T1 # <<>> /\ T2 # <<>> /\ T1 # T2
          /\ PersistedTree \notin {T1, T2}
          /\ PersistedTree \in {T1 \o T2, T2 \o T1}

---------------------------------------------------------------------------
(* Uploads whose forms delete a stored file, name it again, or bring a new  *)
(* part; every upload to the bucket succeeds.                                *)

FileForms ==
    { [content |-> << S("s1", << D("c1", <<Ref(NameA)>>, <<>>, <<>>) >>) >>,
       parts |-> <<>>, json |-> TRUE],
      [content |-> << S("s1", << D("c1", <<>>, <<>>, <<NameA>>) >>) >>,
       parts |-> <<>>, json |-> TRUE],
      [content |-> << S("s1", << D("c1", <<Ref(NameA)>>, <<>>, <<NameA>>) >>) >>,
       parts |-> <<>>, json |-> TRUE],
      [content |-> << S("s1", << D("c1", <<Ref(NameA)>>, <<NameUs>>, <<>>) >>) >>,
       parts |-> <<NameUs>>, json |-> TRUE] }

UploadFiles(r) ==
    \E kind \in MeetKinds, cols \in Cols, form \in FileForms :
        \E idf \in {NewId} \cup KnownIds(kind), ts \in TimeStamps :
            UploadMeet(r, kind, TRUE, idf, cols, form, ts, {})

NextFiles == UploadFiles("w1") \/ MeetDelete("w1") \/ MeetAdd("w1")

SpecFiles == Init /\ [][NextFiles]_vars

\* Every File row of the tables has its blob in the store.
BlobsPresent(tables, store) ==
    \A f \in tables.file : f.filename_with_timestamp \in store

\* The File rows linked to a detail of a schedule of the event (kind, id).
FilesUnder(tables, kind, id) ==
    {f \in tables.file :
        \E l \in tables.detail_file, d \in tables.detail, sc \in tables.schedule :
            /\ l.file_id = f.id
            /\ l.detail_id = d.id
            /\ d.schedule_id = sc.id
            /\ IF kind = "minutes" THEN sc.record_id = id
               ELSE sc.notification_id = id}

\* C21: if every File row had its blob before an edit and no blob operation
\* failed, then after the edit has succeeded every File linked to a detail of
\* the event's new tree has its blob in the store.
C21_NoDanglingFile ==
    [][\A r \in Slots :
        (/\ Ends(r)
         /\ req'[r].kind \in MeetKinds
         /\ ~req'[r].is_new
         /\ resp'[r] = 200
         /\ BlobsPresent(pre'[r].db, pre'[r].blobs)
         /\ s3del'[r] \cap blobs' = {})
        => \A f \in FilesUnder(db', req'[r].kind, req'[r].id) :
                f.filename_with_timestamp \in blobs']_vars

---------------------------------------------------------------------------
(* Frame of an edit or a delete *)

\* The schedules, details and file links of every event but (kind, id).
OtherEvents(tables, kind, id) ==
    LET scheds == {sc \in tables.schedule :
                     IF kind = "minutes" THEN sc.record_id # id
                     ELSE sc.notification_id # id}
        dets == {d \in tables.detail : d.schedule_id \in Ids(scheds)}
    IN [schedule |-> scheds,
        detail |-> dets,
        detail_file |-> {l \in tables.detail_file : l.detail_id \in Ids(dets)}]

\* C22: a step of an upload for an event, and a delete of an event, leave the
\* schedules, details and file links of every other event as they were, also
\* those of a notification and a record with the same id.
C22_OtherEventsUnchanged ==
    [][/\ \A r \in Slots :
            (pc[r] # "idle" /\ req[r].kind \in MeetKinds)
            => OtherEvents(db', req[r].kind, req[r].id)
                    = OtherEvents(db, req[r].kind, req[r].id)
       /\ (last'.op = "delete" /\ last' # last /\ last'.kind \in MeetKinds)
            => OtherEvents(db', last'.kind, last'.id)
                    = OtherEvents(db, last'.kind, last'.id)]_vars

\* C22 witness: an edit of record 1 has deleted its old schedules and inserted
\* new ones while notification 1 has a schedule of its own, which is still there.
C22_Witness ==
    /\ pc["w1"] = "idle"
    /\ resp["w1"] = 200
    /\ req["w1"].kind = "minutes"
    /\ req["w1"].id = 1
    /\ \E e \in db.notification : e.id = 1
    /\ \E sc \in db.schedule : sc.notification_id = 1
    /\ \E sc \in db.schedule : sc.record_id = 1 /\ sc.id > 2

====
